---------------------------- MODULE Spec2Model ----------------------------
(***************************************************************************)
(* Model of the onnxruntime C/C++ samples:                                 *)
(*   samples/cxx/common/image_common.c  hwc_to_chw, chw_to_hwc             *)
(*   samples/cxx/mnist/mnist.cpp        softmax, MNIST::Run                *)
(*                                                                         *)
(* The C type float is IEEE-754 binary32.  A finite float is the record    *)
(* [m |-> mantissa, e |-> exponent] with value m * 2^e, kept in canonical  *)
(* form: m = 0 and e = MinExp (zero), or 2^23 <= |m| < 2^24 (normal), or   *)
(* e = MinExp and |m| < 2^23 (subnormal).  Arithmetic rounds to nearest,   *)
(* ties to even, as the hardware does.  Infinities and NaN are outside the *)
(* modelled domain: every score and pixel value is a finite float.         *)
(***************************************************************************)
EXTENDS Integers, Sequences, FiniteSets

(***************************************************************************)
(* IEEE-754 binary32 arithmetic                                            *)
(***************************************************************************)
MantBits == 24
MinExp == -149

Pow2(n) == 2 ^ n

Max2(a, b) == IF a < b THEN b ELSE a

Min2(a, b) == IF a < b THEN a ELSE b

\* number of bits of the natural number s (0 for s = 0)
RECURSIVE BitLen(_)
BitLen(s) == IF s = 0 THEN 0 ELSE 1 + BitLen(s \div 2)

FZero == [m |-> 0, e |-> MinExp]

\* The float nearest to (s + d) * 2^e, where s >= 0 and 0 <= d < 1 with
\* d > 0 exactly when sticky holds (round to nearest, ties to even; results
\* below the normal range lose precision gradually).  A caller that passes
\* sticky = TRUE passes at least MantBits + 2 bits in s.
RoundPack(s, e, sticky) ==
  LET nb == BitLen(s)
      k  == Max2(nb - MantBits, MinExp - e)
  IN IF s = 0 /\ ~sticky THEN FZero
     ELSE IF k <= 0
       THEN LET j == Min2(MantBits - nb, e - MinExp)
            IN [m |-> s * Pow2(j), e |-> e - j]
     ELSE IF k > nb + 1 THEN FZero
     ELSE LET q    == s \div Pow2(k)
              rem  == s % Pow2(k)
              half == Pow2(k - 1)
              up   == \/ rem > half
                      \/ rem = half /\ sticky
                      \/ rem = half /\ ~sticky /\ q % 2 = 1
              q1   == IF up THEN q + 1 ELSE q
          IN IF q1 = 0 THEN FZero
             ELSE IF q1 = Pow2(MantBits)
               THEN [m |-> Pow2(MantBits - 1), e |-> e + k + 1]
             ELSE [m |-> q1, e |-> e + k]

FNeg(a) == [m |-> -a.m, e |-> a.e]

\* value of a signed integer n as a float (exact for |n| < 2^24)
FromInt(n) ==
  IF n < 0 THEN FNeg(RoundPack(-n, 0, FALSE)) ELSE RoundPack(n, 0, FALSE)

\* a < b on canonical floats
FLess(a, b) ==
  IF a.m < 0 /\ b.m >= 0 THEN TRUE
  ELSE IF a.m >= 0 /\ b.m < 0 THEN FALSE
  ELSE IF a.m >= 0
    THEN IF a.m = 0 THEN b.m > 0
         ELSE IF b.m = 0 THEN FALSE
         ELSE a.e < b.e \/ (a.e = b.e /\ a.m < b.m)
  ELSE a.e > b.e \/ (a.e = b.e /\ a.m < b.m)

\* a + b with a.e >= b.e.  GuardBits low bits of the wider operand are kept
\* exactly; what lies below them is folded into the sticky bit.
AddAligned(a, b) ==
  LET d == a.e - b.e
      GuardBits == 6
  IN IF d <= GuardBits
       THEN LET s == a.m * Pow2(d) + b.m
            IN IF s < 0 THEN FNeg(RoundPack(-s, b.e, FALSE))
               ELSE RoundPack(s, b.e, FALSE)
     ELSE LET sh  == d - GuardBits
              big == sh > MantBits
              q   == IF big THEN (IF b.m < 0 THEN -1 ELSE 0)
                     ELSE b.m \div Pow2(sh)
              st  == IF big THEN b.m # 0 ELSE b.m % Pow2(sh) # 0
              s   == a.m * Pow2(GuardBits) + q
              w   == a.e - GuardBits
          IN IF s >= 0 THEN RoundPack(s, w, st)
             ELSE IF st THEN FNeg(RoundPack(-s - 1, w, TRUE))
             ELSE FNeg(RoundPack(-s, w, FALSE))

\* a + b in binary32
FAdd(a, b) == IF a.e >= b.e THEN AddAligned(a, b) ELSE AddAligned(b, a)

\* a - b in binary32
FSub(a, b) == FAdd(a, FNeg(b))

\* restoring division: steps more quotient bits of rem / den, rem < den
RECURSIVE LongDiv(_, _, _, _)
LongDiv(rem, den, steps, acc) ==
  IF steps = 0 THEN <<acc, rem>>
  ELSE IF 2 * rem >= den
    THEN LongDiv(2 * rem - den, den, steps - 1, 2 * acc + 1)
  ELSE LongDiv(2 * rem, den, steps - 1, 2 * acc)

\* a / b in binary32, for a >= 0 and b > 0.  DivBits quotient bits are
\* computed below the leading one before rounding.
FDiv(a, b) ==
  IF a.m = 0 THEN FZero
  ELSE LET DivBits == 26
           ja == MantBits - BitLen(a.m)
           jb == MantBits - BitLen(b.m)
           na == a.m * Pow2(ja)
           nb == b.m * Pow2(jb)
           qr == LongDiv(na % nb, nb, DivBits, na \div nb)
       IN RoundPack(qr[1], (a.e - ja) - (b.e - jb) - DivBits, qr[2] # 0)

\* (uint8_t)f for a float 0 <= f <= 255: the fraction is discarded
TruncToByte(f) ==
  IF f.e >= 0 THEN f.m * Pow2(f.e)
  ELSE IF -f.e >= MantBits THEN 0
  ELSE f.m \div Pow2(-f.e)

One == FromInt(1)

\* std::exp on binary32 (glibc expf), on the arguments d <= 0 that
\* input[i] - rowmax takes: exp(d) rounds to 1.0f for -2^-25 <= d <= 0,
\* underflows to 0 below -104, and is tabulated in between.
Exp(d) ==
  IF ~FLess(d, [m |-> -Pow2(MantBits - 1), e |-> -48]) /\ ~FLess(FZero, d)
    THEN One
  ELSE IF FLess(d, FromInt(-104)) THEN FZero
  ELSE CASE d = FromInt(-1)   -> [m |-> 12343986, e |-> -25]  \* 0x1.78b564p-2
         [] d = FromInt(-2)   -> [m |-> 9082197, e |-> -26]   \* 0x1.152aaap-3
         [] d = FromInt(-3)   -> [m |-> 13364614, e |-> -28]  \* 0x1.97db0cp-5
         [] d = FromInt(-4)   -> [m |-> 9833134, e |-> -29]   \* 0x1.2c155cp-6
         [] d = FromInt(-100) -> [m |-> 27, e |-> MinExp]     \* 0x1.bp-145

(***************************************************************************)
(* State                                                                   *)
(***************************************************************************)
VARIABLES
  \* layout converter (image_common.c)
  h, w,          \* image height and width
  hwcIn,         \* interleaved byte image handed to hwc_to_chw (<<>>: none)
  chwBuf,        \* planar float image: *output of hwc_to_chw, input of chw_to_hwc
  chwCount,      \* *output_count of hwc_to_chw
  hwcOut,        \* *output of chw_to_hwc
  allocFailed,   \* malloc returned NULL in the last conversion
  convPc,        \* "hwc", "chw", "done", "aborted", "crashed", "returned_null"
  \* softmax / argmax on a score vector (mnist.cpp)
  scores,        \* the vector as passed in
  input,         \* the vector softmax works on in place
  labelBefore,   \* argmax taken before softmax (-1: not taken)
  labelAfter,    \* argmax taken after softmax (-1: not taken)
  smPc,          \* "call", "done", "crashed"
  \* MNIST::Run (mnist.cpp)
  g_ort,         \* TRUE when the global API pointer is set
  rpc,           \* position in Run
  ret,           \* the local ret
  input_height, input_width,
  inp_image_buf, \* "null", "live", "freed"
  frees,         \* number of free(inp_image_buf) calls
  staleReads,    \* reads of inp_image_buf after its release
  input_image_,  \* "zero" (as constructed) or "loaded"
  results_,      \* the 10 output scores
  runCalls,      \* g_ort->Run calls issued
  softmaxCalls,  \* softmax(results_) calls
  failure        \* "none", "no_api", "decode", "dims", "engine"

convVars == <<h, w, hwcIn, chwBuf, chwCount, hwcOut, allocFailed, convPc>>

smVars == <<scores, input, labelBefore, labelAfter, smPc>>

runVars == <<g_ort, rpc, ret, input_height, input_width, inp_image_buf, frees,
             staleReads, input_image_, results_, runCalls, softmaxCalls, failure>>

vars == <<convVars, smVars, runVars>>

(***************************************************************************)
(* Bounds and input domains                                                *)
(***************************************************************************)
MaxDim == 2      \* h and w range over 1..MaxDim

MaxN == 3        \* score vectors of the softmax specification have 0..MaxN entries

Channels == 3

NumClasses == 10

ImgSide == 28

\* builds a float from a ratio of two positive integers
Ratio(a, b) == FDiv(FromInt(a), FromInt(b))

ByteVals == {0, 1, 128, 255}

\* images with one sample v on a background u, and the ramp 10, 20, 30, ...
ByteImages(n) ==
  {[k \in 1..n |-> IF k = p THEN v ELSE u] : p \in 1..n, u \in ByteVals, v \in ByteVals}
  \cup {[k \in 1..n |-> (10 * k) % 256]}

PixVals ==
  {FromInt(-5), FNeg(Ratio(1, 2)), FZero, Ratio(3, 4), Ratio(3, 2),
   Ratio(1019, 4), FromInt(255), Ratio(511, 2), FromInt(256), FromInt(300)}

PlanarImages(n) ==
  {[k \in 1..n |-> IF k = p THEN v ELSE u] : p \in 1..n, u \in PixVals, v \in PixVals}

Tiny == [m |-> Pow2(MantBits - 1), e |-> -53]   \* 2^-30

ScoreVals == {FromInt(-1), FZero, Tiny, One, FromInt(3), FromInt(900), FromInt(1000)}

RunScoreVals == {FZero, Tiny, One, FromInt(3)}

\* engine outputs: two entries a, b on a background c
EngineOutputs ==
  {[i \in 1..NumClasses |-> IF i = p THEN a ELSE IF i = q THEN b ELSE c] :
     p \in 1..NumClasses, q \in 1..NumClasses,
     a \in RunScoreVals, b \in RunScoreVals, c \in RunScoreVals}

\* every vector of 0..MaxN scores, and the engine outputs (NumClasses scores)
ScoreVectors == UNION {[1..n -> ScoreVals] : n \in 0..MaxN} \cup EngineOutputs

DecodedSides == {ImgSide - 1, ImgSide}

(***************************************************************************)
(* image_common.c                                                          *)
(***************************************************************************)
\* what malloc hands back: memory that holds no value yet
UninitFloat == [m |-> 0, e |-> 0]

UninitByte == -1

\* index of channel c of pixel i in the planar layout (Swapped: the faulty
\* variant that indexes the planar buffer pixel-major)
PlanarIndexSwapped(c, stride, i) == i * Channels + c

PlanarIndex(c, stride, i) == c * stride + i

\* index of channel c of pixel i in the interleaved layout
InterleavedIndex(i, c) == i * Channels + c

\* the loops of hwc_to_chw: output_data[c * stride + i] = input[i * 3 + c]
RECURSIVE HwcLoop(_, _, _, _, _)
HwcLoop(out, in, stride, i, c) ==
  IF i = stride THEN out
  ELSE IF c = Channels THEN HwcLoop(out, in, stride, i + 1, 0)
  ELSE HwcLoop([out EXCEPT ![PlanarIndex(c, stride, i) + 1] =
                             FromInt(in[InterleavedIndex(i, c) + 1])],
               in, stride, i, c + 1)

\* if (f < 0.f || f > 255.0f) f = 0;   (ClampHigh: the faulty variant that
\* saturates at 255; ClampOpen: the faulty variant that also zeroes 255)
ClampHigh(f) ==
  IF FLess(f, FZero) THEN FZero
  ELSE IF FLess(FromInt(255), f) THEN FromInt(255) ELSE f

ClampOpen(f) ==
  IF FLess(f, FZero) \/ ~FLess(f, FromInt(255)) THEN FZero ELSE f

Clamp(f) ==
  IF FLess(f, FZero) \/ FLess(FromInt(255), f) THEN FZero ELSE f

\* the loops of chw_to_hwc
RECURSIVE ChwLoop(_, _, _, _, _)
ChwLoop(out, in, stride, c, i) ==
  IF c = Channels THEN out
  ELSE IF i = stride THEN ChwLoop(out, in, stride, c + 1, 0)
  ELSE LET t == PlanarIndex(c, stride, 0)
           f == Clamp(in[t + i + 1])
       IN ChwLoop([out EXCEPT ![InterleavedIndex(i, c) + 1] = TruncToByte(f)],
                  in, stride, c, i + 1)

\* what a failed malloc leads to: assert() aborts; with NDEBUG the loop
\* writes through the null pointer, which ends the process or goes unnoticed
AllocFailOutcomes == {"aborted", "crashed", "returned_null"}

HwcToChw ==
  /\ convPc = "hwc"
  /\ LET stride == h * w
         count  == stride * Channels
     IN /\ chwCount' = count
        /\ \E ok \in BOOLEAN :
             IF ok
               THEN /\ chwBuf' = HwcLoop([k \in 1..count |-> UninitFloat],
                                         hwcIn, stride, 0, 0)
                    /\ convPc' = "chw"
                    /\ allocFailed' = FALSE
             ELSE /\ chwBuf' = <<>>
                  /\ convPc' \in AllocFailOutcomes
                  /\ allocFailed' = TRUE
  /\ UNCHANGED <<h, w, hwcIn, hwcOut>>
  /\ UNCHANGED <<smVars, runVars>>

ChwToHwc ==
  /\ convPc = "chw"
  /\ LET stride == h * w
     IN \E ok \in BOOLEAN :
          IF ok
            THEN /\ hwcOut' = ChwLoop([k \in 1..(stride * Channels) |-> UninitByte],
                                      chwBuf, stride, 0, 0)
                 /\ convPc' = "done"
                 /\ allocFailed' = FALSE
          ELSE /\ hwcOut' = <<>>
               /\ convPc' \in AllocFailOutcomes
               /\ allocFailed' = TRUE
  /\ UNCHANGED <<h, w, hwcIn, chwBuf, chwCount>>
  /\ UNCHANGED <<smVars, runVars>>

(***************************************************************************)
(* mnist.cpp: softmax and std::max_element                                 *)
(***************************************************************************)
\* the comparison std::max_element makes: *largest < *first   (LessOrEqual:
\* the faulty variant that lets a later equal entry win)
LessOrEqual(a, b) == ~FLess(b, a)

IsLarger(a, b) == FLess(a, b)

\* the scan of std::max_element from position first (0-based) on
RECURSIVE MaxScan(_, _, _)
MaxScan(v, largest, first) ==
  IF first = Len(v) THEN largest
  ELSE IF IsLarger(v[largest + 1], v[first + 1]) THEN MaxScan(v, first, first + 1)
  ELSE MaxScan(v, largest, first + 1)

\* std::max_element(v.begin(), v.end()) as a 0-based position; for an empty
\* range it is the end position, 0
MaxElement(v) == IF Len(v) = 0 THEN 0 ELSE MaxScan(v, 0, 1)

\* std::distance(v.begin(), std::max_element(v.begin(), v.end()))
Argmax(v) == MaxElement(v)

\* y[i] = std::exp(input[i] - rowmax)
ExpScore(x, rowmax) == Exp(FSub(x, rowmax))

\* sum += y[i], for i from position i (1-based) on
RECURSIVE SumLoop(_, _, _)
SumLoop(y, i, sum) ==
  IF i > Len(y) THEN sum ELSE SumLoop(y, i + 1, FAdd(sum, y[i]))

\* input[i] = y[i] / sum   (NormalizeBySelf: the faulty variant that stores
\* y[i] undivided)
NormalizeBySelf(yi, sum) == yi

Normalize(yi, sum) == FDiv(yi, sum)

\* softmax on a non-empty vector   (softmaxRunningSum: the faulty variant
\* with the two loops fused, dividing by the sum accumulated so far)
softmaxRunningSum(v) ==
  LET rowmax == v[MaxElement(v) + 1]
      y      == [i \in 1..Len(v) |-> ExpScore(v[i], rowmax)]
  IN [i \in 1..Len(v) |-> Normalize(y[i], SumLoop(SubSeq(y, 1, i), 1, FZero))]

softmax(v) ==
  LET rowmax == v[MaxElement(v) + 1]
      y      == [i \in 1..Len(v) |-> ExpScore(v[i], rowmax)]
      sum    == SumLoop(y, 1, FZero)
  IN [i \in 1..Len(v) |-> Normalize(y[i], sum)]

\* softmax(input).  On an empty vector max_element returns end() and the
\* code dereferences it: the read faults, or yields some value and the
\* function returns having written nothing.
SoftmaxCall ==
  /\ smPc = "call"
  /\ IF Len(input) = 0
       THEN /\ smPc' \in {"crashed", "done"}
            /\ input' = input
     ELSE /\ input' = softmax(input)
          /\ smPc' = "done"
  /\ UNCHANGED <<scores, labelBefore, labelAfter>>
  /\ UNCHANGED <<convVars, runVars>>

\* std::distance(begin, std::max_element(begin, end)) on the vector
ArgmaxCall ==
  /\ \/ /\ smPc = "call"
        /\ labelBefore = -1
        /\ labelBefore' = Argmax(input)
        /\ UNCHANGED labelAfter
     \/ /\ smPc = "done"
        /\ labelAfter = -1
        /\ labelAfter' = Argmax(input)
        /\ UNCHANGED labelBefore
  /\ UNCHANGED <<scores, input, smPc>>
  /\ UNCHANGED <<convVars, runVars>>

(***************************************************************************)
(* mnist.cpp: MNIST::Run                                                   *)
(***************************************************************************)
\* int64_t ret{-1}; if (g_ort == NULL) return ret;
RunEntry ==
  /\ rpc = "entry"
  /\ ret' = -1
  /\ IF g_ort
       THEN rpc' = "decode" /\ UNCHANGED failure
     ELSE rpc' = "returned" /\ failure' = "no_api"
  /\ UNCHANGED <<g_ort, input_height, input_width, inp_image_buf, frees,
                 staleReads, input_image_, results_, runCalls, softmaxCalls>>
  /\ UNCHANGED <<convVars, smVars>>

\* if (read_image_file(...) != 0) return ret;
ReadImageFile ==
  /\ rpc = "decode"
  /\ \E ok \in BOOLEAN :
       IF ok
         THEN /\ input_height' \in DecodedSides
              /\ input_width' \in DecodedSides
              /\ inp_image_buf' = "live"
              /\ rpc' = "check"
              /\ UNCHANGED failure
       ELSE /\ rpc' = "returned"
            /\ failure' = "decode"
            /\ UNCHANGED <<input_height, input_width, inp_image_buf>>
  /\ UNCHANGED <<g_ort, ret, frees, staleReads, input_image_, results_,
                 runCalls, softmaxCalls>>
  /\ UNCHANGED <<convVars, smVars>>

\* if (input_height != 28 || input_width != 28) { free(inp_image_buf); return ret; }
\* (CheckDimsLeak: the faulty variant that returns without the free)
CheckDimsLeak ==
  /\ rpc = "check"
  /\ IF input_height # ImgSide \/ input_width # ImgSide
       THEN /\ rpc' = "returned"
            /\ failure' = "dims"
            /\ UNCHANGED <<frees, inp_image_buf>>
     ELSE /\ rpc' = "normalize"
          /\ UNCHANGED <<frees, inp_image_buf, failure>>
  /\ UNCHANGED <<g_ort, ret, input_height, input_width, staleReads,
                 input_image_, results_, runCalls, softmaxCalls>>
  /\ UNCHANGED <<convVars, smVars>>

CheckDims ==
  /\ rpc = "check"
  /\ IF input_height # ImgSide \/ input_width # ImgSide
       THEN /\ frees' = frees + 1
            /\ inp_image_buf' = "freed"
            /\ rpc' = "returned"
            /\ failure' = "dims"
     ELSE /\ rpc' = "normalize"
          /\ UNCHANGED <<frees, inp_image_buf, failure>>
  /\ UNCHANGED <<g_ort, ret, input_height, input_width, staleReads,
                 input_image_, results_, runCalls, softmaxCalls>>
  /\ UNCHANGED <<convVars, smVars>>

\* input_image_[i] = inp_image_buf[i] / 255.0f, for every pixel
LoadInput ==
  /\ rpc = "normalize"
  /\ staleReads' = IF inp_image_buf = "live" THEN staleReads ELSE staleReads + 1
  /\ input_image_' = "loaded"
  /\ rpc' = "engine"
  /\ UNCHANGED <<g_ort, ret, input_height, input_width, inp_image_buf, frees,
                 results_, runCalls, softmaxCalls, failure>>
  /\ UNCHANGED <<convVars, smVars>>

\* ORT_ABORT_ON_ERROR(g_ort->Run(...)): an error status ends the process
\* in abort(); otherwise the engine has written results_
\* (EngineRunIgnoringStatus: the faulty variant that carries on after an error)
EngineRunIgnoringStatus ==
  /\ rpc = "engine"
  /\ runCalls' = runCalls + 1
  /\ \E ok \in BOOLEAN :
       /\ failure' = IF ok THEN failure ELSE "engine"
       /\ results_' \in EngineOutputs
       /\ rpc' = "softmax"
  /\ UNCHANGED <<g_ort, ret, input_height, input_width, inp_image_buf, frees,
                 staleReads, input_image_, softmaxCalls>>
  /\ UNCHANGED <<convVars, smVars>>

EngineRun ==
  /\ rpc = "engine"
  /\ runCalls' = runCalls + 1
  /\ \E ok \in BOOLEAN :
       IF ok
         THEN /\ results_' \in EngineOutputs
              /\ rpc' = "softmax"
              /\ UNCHANGED failure
       ELSE /\ rpc' = "aborted"
            /\ failure' = "engine"
            /\ UNCHANGED results_
  /\ UNCHANGED <<g_ort, ret, input_height, input_width, inp_image_buf, frees,
                 staleReads, input_image_, softmaxCalls>>
  /\ UNCHANGED <<convVars, smVars>>

\* softmax(results_);
SoftmaxResults ==
  /\ rpc = "softmax"
  /\ results_' = softmax(results_)
  /\ softmaxCalls' = softmaxCalls + 1
  /\ rpc' = "argmax"
  /\ UNCHANGED <<g_ort, ret, input_height, input_width, inp_image_buf, frees,
                 staleReads, input_image_, runCalls, failure>>
  /\ UNCHANGED <<convVars, smVars>>

\* ret = std::distance(results_.begin(), std::max_element(...));
TakeArgmax ==
  /\ rpc = "argmax"
  /\ ret' = Argmax(results_)
  /\ rpc' = "free"
  /\ UNCHANGED <<g_ort, input_height, input_width, inp_image_buf, frees,
                 staleReads, input_image_, results_, runCalls, softmaxCalls,
                 failure>>
  /\ UNCHANGED <<convVars, smVars>>

\* free(inp_image_buf); return ret;
FreeAndReturn ==
  /\ rpc = "free"
  /\ frees' = frees + 1
  /\ inp_image_buf' = "freed"
  /\ rpc' = "returned"
  /\ UNCHANGED <<g_ort, ret, input_height, input_width, staleReads,
                 input_image_, results_, runCalls, softmaxCalls, failure>>
  /\ UNCHANGED <<convVars, smVars>>

(***************************************************************************)
(* Specifications                                                          *)
(***************************************************************************)
ConvIdle ==
  /\ h = 1 /\ w = 1 /\ hwcIn = <<>> /\ chwBuf = <<>> /\ chwCount = 0
  /\ hwcOut = <<>> /\ allocFailed = FALSE /\ convPc = "idle"

SmIdle ==
  /\ scores = <<>> /\ input = <<>> /\ labelBefore = -1 /\ labelAfter = -1
  /\ smPc = "idle"

\* an MNIST object as constructed: both arrays value-initialised
RunConstructed ==
  /\ ret = -1 /\ input_height = 0 /\ input_width = 0
  /\ inp_image_buf = "null" /\ frees = 0 /\ staleReads = 0
  /\ input_image_ = "zero"
  /\ results_ = [i \in 1..NumClasses |-> FZero]
  /\ runCalls = 0 /\ softmaxCalls = 0 /\ failure = "none"

RunIdle == g_ort = TRUE /\ rpc = "idle" /\ RunConstructed

\* a caller holds either an interleaved byte image or a planar float image
InitLayout ==
  /\ h \in 1..MaxDim
  /\ w \in 1..MaxDim
  /\ \/ /\ hwcIn \in ByteImages(h * w * Channels)
        /\ chwBuf = <<>>
        /\ convPc = "hwc"
     \/ /\ hwcIn = <<>>
        /\ chwBuf \in PlanarImages(h * w * Channels)
        /\ convPc = "chw"
  /\ chwCount = 0
  /\ hwcOut = <<>>
  /\ allocFailed = FALSE
  /\ SmIdle
  /\ RunIdle

InitSoftmax ==
  /\ scores \in ScoreVectors
  /\ input = scores
  /\ labelBefore = -1
  /\ labelAfter = -1
  /\ smPc = "call"
  /\ ConvIdle
  /\ RunIdle

InitRun ==
  /\ g_ort \in BOOLEAN
  /\ rpc = "entry"
  /\ RunConstructed
  /\ ConvIdle
  /\ SmIdle

NextLayout == HwcToChw \/ ChwToHwc

NextSoftmax == SoftmaxCall \/ ArgmaxCall

NextRun ==
  \/ RunEntry
  \/ ReadImageFile
  \/ CheckDims
  \/ LoadInput
  \/ EngineRun
  \/ SoftmaxResults
  \/ TakeArgmax
  \/ FreeAndReturn

SpecLayout == InitLayout /\ [][NextLayout]_vars

SpecSoftmax == InitSoftmax /\ [][NextSoftmax]_vars

SpecRun == InitRun /\ [][NextRun]_vars

Init == InitLayout \/ InitSoftmax \/ InitRun

Next == NextLayout \/ NextSoftmax \/ NextRun

Spec == Init /\ [][Next]_vars

(***************************************************************************)
(* Properties                                                              *)
(***************************************************************************)
\* the float x holds exactly the integer n, 0 <= n < 2^24
ExactInt(x, n) ==
  IF n = 0 THEN x.m = 0
  ELSE x.e <= 0 /\ -x.e < MantBits /\ x.m = n * Pow2(-x.e)

Pixels == 0..(h * w - 1)

Chan == 0..(Channels - 1)

RampImage == <<10, 20, 30, 40, 50, 60, 70, 80, 90, 100, 110, 120>>

RampPlanar == <<10, 40, 70, 100, 20, 50, 80, 110, 30, 60, 90, 120>>

\* C1: after hwc_to_chw on an interleaved byte image of h*w pixels,
\* output_count is 3*h*w and the planar buffer holds, at c*(h*w)+i, exactly
\* the byte found at i*3+c of the input, unscaled; the 2x2 ramp
\* 10,20,...,120 becomes 10,40,70,100,20,50,80,110,30,60,90,120.
C1_HwcToChwPlanar ==
  (convPc = "chw" /\ hwcIn # <<>>) =>
    /\ chwCount = 3 * h * w
    /\ Len(chwBuf) = 3 * h * w
    /\ \A i \in Pixels : \A c \in Chan :
         ExactInt(chwBuf[c * (h * w) + i + 1], hwcIn[i * 3 + c + 1])
    /\ (h = 2 /\ w = 2 /\ hwcIn = RampImage) =>
         \A k \in 1..12 : ExactInt(chwBuf[k], RampPlanar[k])

C1_Witness ==
  convPc = "chw" /\ h = 2 /\ w = 2 /\ hwcIn = RampImage /\ chwBuf # <<>>

\* C2: chw_to_hwc applied to the result of hwc_to_chw gives back the byte
\* image element by element, the bytes 0 and 255 included.
C2_RoundTrip ==
  (convPc = "done" /\ hwcIn # <<>>) => hwcOut = hwcIn

C2_Witness ==
  /\ convPc = "done"
  /\ hwcIn # <<>>
  /\ h * w > 1
  /\ \E k \in 1..Len(hwcIn) : hwcIn[k] = 255 /\ hwcOut[k] = 255
  /\ \E k \in 1..Len(hwcIn) : hwcIn[k] = 0 /\ hwcOut[k] = 0

\* C3: after chw_to_hwc, the byte at i*3+c is 0 when the planar value at
\* c*(h*w)+i is below 0 or above 255, and otherwise is that value with its
\* fraction discarded (-5 and 300 give 0, 0 gives 0, 255 gives 255).
C3_ClampToZero ==
  convPc = "done" =>
    /\ Len(hwcOut) = 3 * h * w
    /\ \A i \in Pixels : \A c \in Chan :
         LET f == chwBuf[c * (h * w) + i + 1]
             b == hwcOut[i * 3 + c + 1]
         IN /\ b \in 0..255
            /\ IF FLess(f, FZero) \/ FLess(FromInt(255), f)
                 THEN b = 0
               ELSE ~FLess(f, FromInt(b)) /\ FLess(f, FromInt(b + 1))
            /\ (f = FromInt(-5) \/ f = FromInt(300) \/ f = FZero) => b = 0
            /\ f = FromInt(255) => b = 255

C3_Witness ==
  /\ convPc = "done"
  /\ hwcIn = <<>>
  /\ \E j \in 1..Len(chwBuf), k \in 1..Len(chwBuf) :
       /\ chwBuf[j] = FromInt(300)
       /\ chwBuf[k] = Ratio(1019, 4)
       /\ \E o \in 1..Len(hwcOut) : hwcOut[o] = 254

\* C4: softmax and argmax on an empty score vector end in an InvalidInput
\* error: softmax neither crashes nor returns normally, argmax yields no index.
C4_EmptyInputRejected ==
  Len(scores) = 0 =>
    /\ smPc \in {"call", "invalid_input"}
    /\ labelBefore = -1
    /\ labelAfter = -1

\* C5: a failed allocation in hwc_to_chw or chw_to_hwc comes back to the
\* caller as an explicit error result: no abort, no crash, no silent return.
C5_AllocFailureReported ==
  allocFailed => convPc = "alloc_error"

C8_PredictedLabel ==
  rpc = "returned" =>
    IF failure = "none"
      THEN /\ ret \in 0..(NumClasses - 1)
           /\ softmaxCalls = 1
           /\ \A j \in 1..NumClasses : ~FLess(results_[ret + 1], results_[j])
           /\ \A j \in 1..ret : FLess(results_[j], results_[ret + 1])
    ELSE ret = -1

C8_Witness ==
  /\ rpc = "returned"
  /\ failure = "none"
  /\ ret \in 1..(NumClasses - 2)
  /\ \E j \in (ret + 2)..NumClasses : results_[j] = results_[ret + 1]

\* floor(x * 2^k) for a float 0 <= x <= 1 and 0 <= k <= 28
FixFloor(x, k) ==
  LET sh == x.e + k
  IN IF sh >= 0 THEN x.m * Pow2(sh)
     ELSE IF -sh >= MantBits THEN 0
     ELSE x.m \div Pow2(-sh)

\* ceiling(x * 2^k) for a float 0 <= x <= 1 and 0 <= k <= 28
FixCeil(x, k) ==
  LET sh == x.e + k
  IN IF sh >= 0 THEN x.m * Pow2(sh)
     ELSE IF -sh >= MantBits THEN (IF x.m = 0 THEN 0 ELSE 1)
     ELSE (x.m + Pow2(-sh) - 1) \div Pow2(-sh)

\* the sum of f over the index set S, saturating at 2^29
RECURSIVE SumOver(_, _)
SumOver(f, S) ==
  IF S = {} THEN 0
  ELSE LET i == CHOOSE j \in S : TRUE
       IN Min2(f[i] + SumOver(f, S \ {i}), Pow2(29))

InUnit(x) == x.m >= 0 /\ ~FLess(One, x)

\* x rounded to four decimals, in ten-thousandths
Round4(x) == (FixFloor(x, 16) * 10000 + Pow2(15)) \div Pow2(16)

C10_BufferReleasedOnce ==
  /\ staleReads = 0
  /\ rpc = "returned" =>
       IF failure \in {"dims", "none"}
         THEN frees = 1 /\ inp_image_buf = "freed"
       ELSE frees = 0 /\ inp_image_buf = "null"
  /\ frees <= 1

C10_Witness ==
  /\ rpc = "returned"
  /\ failure = "dims"
  /\ frees = 1
  /\ inp_image_buf = "freed"

=============================================================================
